---- MODULE Spec2Model ----
(***************************************************************************)
(* QR Code Studio: the two GUI front-ends (src/main.py, QRApp; and         *)
(* src/src/qrstudio/ui/tk_app.py, App), the event bus, the encoder factory *)
(* and the Generate / Save / Clear handlers, as a state machine.           *)
(*                                                                         *)
(* Text is a sequence of one-character strings, so that strip(), split(),  *)
(* lower(), lstrip() and int() are computed as Python computes them.       *)
(* A handler is one action; what it did, in order (dialogs shown, calls    *)
(* into the qrcode / Pillow libraries, files written, callbacks the bus    *)
(* called), is left in the variable effects.                               *)
(***************************************************************************)
EXTENDS Integers, Sequences, FiniteSets, TLC

VARIABLES
    frontend,       \* "main": main.py's QRApp;  "tk": tk_app.py's App
    input_var,      \* the Text / URL entry
    ec_var,         \* the error-correction combobox
    box_var,        \* the text held by the box-size field
    border_var,     \* the text held by the border field
    fill_var,       \* the fill-colour entry
    bg_var,         \* the background radio buttons
    current_image,  \* QRApp.current_image / App._current_img  (None or <<image>>)
    current_qr,     \* QRApp.current_qr / App._current_qr      (None or <<qr>>)
    current_spec,   \* QRApp.current_spec                      (None or <<spec>>)
    preview,        \* the preview label: [image, text]
    status_var,     \* the status line
    last_op,        \* the handler that ran last
    effects,        \* what that handler did, in order
    subs,           \* EventBus._subs
    calls,          \* bus harness: every callback call made, <<fn, message>>
    hist,           \* bus harness: the subscribe / publish calls made so far
    fx_in,          \* factory harness: the string handed to the factory / the path
    fx_out          \* factory harness: what came back

vars == << frontend, input_var, ec_var, box_var, border_var, fill_var, bg_var,
           current_image, current_qr, current_spec, preview, status_var,
           last_op, effects, subs, calls, hist, fx_in, fx_out >>

appVars == << frontend, input_var, ec_var, box_var, border_var, fill_var, bg_var,
              current_image, current_qr, current_spec, preview, status_var,
              last_op, effects >>
busVars == << subs, calls, hist >>
fxVars == << fx_in, fx_out >>

(***************************************************************************)
(* Python values                                                           *)
(***************************************************************************)
None == << >>
Some(x) == << x >>

Ev(k, a) == [kind |-> k, arg |-> a]

\* str.strip() with no argument strips these
Whitespace == {" ", "\t", "\n"}

RECURSIVE lstrip(_, _)
lstrip(s, cs) ==
    IF s = << >> \/ Head(s) \notin cs THEN s ELSE lstrip(Tail(s), cs)

RECURSIVE rstrip(_, _)
rstrip(s, cs) ==
    IF s = << >> \/ s[Len(s)] \notin cs THEN s
    ELSE rstrip(SubSeq(s, 1, Len(s) - 1), cs)

strip(s) == rstrip(lstrip(s, Whitespace), Whitespace)

LowerChar(c) ==
    CASE c = "S" -> "s"
      [] c = "V" -> "v"
      [] c = "G" -> "g"
      [] c = "P" -> "p"
      [] c = "N" -> "n"
      [] OTHER -> c

lower(s) == [i \in 1..Len(s) |-> LowerChar(s[i])]

RECURSIVE split(_, _)
split(s, sep) ==
    IF \A i \in 1..Len(s) : s[i] # sep THEN << s >>
    ELSE LET i == CHOOSE k \in 1..Len(s) :
                      s[k] = sep /\ \A j \in 1..(k - 1) : s[j] # sep
         IN  << SubSeq(s, 1, i - 1) >> \o split(SubSeq(s, i + 1, Len(s)), sep)

Digits == {"0", "1", "2", "3", "4", "5", "6", "7", "8", "9"}

DigitVal(c) ==
    CASE c = "0" -> 0 [] c = "1" -> 1 [] c = "2" -> 2 [] c = "3" -> 3
      [] c = "4" -> 4 [] c = "5" -> 5 [] c = "6" -> 6 [] c = "7" -> 7
      [] c = "8" -> 8 [] c = "9" -> 9

RECURSIVE DecimalValue(_)
DecimalValue(s) ==
    IF s = << >> THEN 0
    ELSE 10 * DecimalValue(SubSeq(s, 1, Len(s) - 1)) + DigitVal(s[Len(s)])

\* int(...) of a field's text: None stands for the exception (a TclError from
\* IntVar.get() in main.py, a ValueError from int(str) in tk_app.py). The
\* fields of the model hold only unsigned decimal digit strings without a
\* leading zero, the empty string, or letters.
int(s) ==
    IF s # << >> /\ \A i \in 1..Len(s) : s[i] \in Digits
    THEN Some(DecimalValue(s)) ELSE None


(***************************************************************************)
(* The event bus (main.py, EventBus)                                       *)
(***************************************************************************)
EventBus_new == << >>

EventBus_subscribe(s, fn) == Append(s, fn)

\* publish as something other than the code: the callbacks in reverse order
EventBus_publish_reversed(s, m) ==
    [i \in 1..Len(s) |-> << s[Len(s) + 1 - i], m >>]

\* the callback calls publish(m) makes, in order: for fn in self._subs: fn(m)
EventBus_publish(s, m) == [i \in 1..Len(s) |-> << s[i], m >>]

\* the calls of one publish as entries of effects
Publish(m) ==
    LET cs == EventBus_publish(subs, m)
    IN  [i \in 1..Len(cs) |-> Ev(cs[i][1], cs[i][2])]

(***************************************************************************)
(* The qrcode / Pillow calls the handlers make                             *)
(***************************************************************************)
ErrorLevels == {"L", "M", "Q", "H"}

\* err_map.get(level, ERROR_CORRECT_M)
err_map_get(level) ==
    CASE level = "L" -> "ERROR_CORRECT_L"
      [] level = "M" -> "ERROR_CORRECT_M"
      [] level = "Q" -> "ERROR_CORRECT_Q"
      [] level = "H" -> "ERROR_CORRECT_H"
      [] OTHER -> "ERROR_CORRECT_M"

\* the colour names Pillow's ImageColor knows, among those the model uses;
\* make_image raises ValueError ("unknown color specifier") for any other
KnownColors == {"black", "red", "white"}

QRCode(ec, box, border) ==
    [error_correction |-> ec, box_size |-> box, border |-> border,
     data_list |-> << >>]

\* qr.add_data(text): one more chunk of data
add_data(qr, data) == [qr EXCEPT !.data_list = Append(@, data)]

\* what a symbol encodes: the chunks of its data_list, joined
RECURSIVE Joined(_)
Joined(l) == IF l = << >> THEN << >> ELSE Head(l) \o Joined(Tail(l))

\* str(qr.data_list) of a list of QRData chunks, each printed as the repr of
\* its bytes: "[b'..', b'..']" (the model's lists hold one chunk)
RECURSIVE ReprItems(_)
ReprItems(l) ==
    IF l = << >> THEN << >>
    ELSE << "b", "'" >> \o Head(l) \o << "'" >>
         \o (IF Len(l) > 1 THEN << ",", " " >> ELSE << >>) \o ReprItems(Tail(l))

str_of_list(l) == << "[" >> \o ReprItems(l) \o << "]" >>

\* PilImage.new_image: the mode the colours select
pil_mode(fill, back) ==
    IF fill = "black" /\ back = "white" THEN "1"
    ELSE IF back = "transparent" THEN "RGBA"
    ELSE "RGB"

\* qr.make_image(fill_color, back_color) with the default (Pillow) factory
make_image(qr, fill, back) ==
    [encodes |-> Joined(qr.data_list), error_correction |-> qr.error_correction,
     box_size |-> qr.box_size, border |-> qr.border,
     fill_color |-> fill, back_color |-> back, mode |-> pil_mode(fill, back)]

convert(img, mode) == [img EXCEPT !.mode = mode]

\* svg_qr.make_image(fill_color, back_color=None) with the SvgImage factory
svg_make_image(qr, fill) ==
    [encodes |-> Joined(qr.data_list), error_correction |-> qr.error_correction,
     box_size |-> qr.box_size, border |-> qr.border,
     fill_color |-> fill, back_color |-> "None", mode |-> "SVG"]

(***************************************************************************)
(* Strategy: Background, and QRSpec (main.py)                              *)
(***************************************************************************)
WhiteBackground == [name |-> "White", back_color |-> "white"]
TransparentBackground == [name |-> "Transparent", back_color |-> "transparent"]

\* QRApp._build_spec: None when reading a numeric field raises
build_spec ==
    LET b == int(box_var)
        bd == int(border_var)
    IN  IF b = None \/ bd = None THEN None
        ELSE Some([data |-> input_var,
                   error_level |-> ec_var,
                   box_size |-> b[1],
                   border |-> bd[1],
                   fill_color |-> IF fill_var = "" THEN "black" ELSE fill_var,
                   background |-> IF bg_var = "white" THEN WhiteBackground
                                  ELSE TransparentBackground])

(***************************************************************************)
(* Factory: encoders (main.py)                                             *)
(***************************************************************************)
\* for_extension without the lower(): "SVG" is not recognised
for_extension_no_lower(ext) ==
    LET e == lstrip(ext, {"."})
    IN  IF e = << "p", "n", "g" >> THEN "PNGEncoder"
        ELSE IF e = << "s", "v", "g" >> THEN "SVGEncoder"
        ELSE "PNGEncoder"

\* ImageEncoderFactory.for_extension
for_extension(ext) ==
    LET e == lstrip(lower(ext), {"."})
    IN  IF e = << "p", "n", "g" >> THEN "PNGEncoder"
        ELSE IF e = << "s", "v", "g" >> THEN "SVGEncoder"
        ELSE "PNGEncoder"

\* path.split(".")[-1]
path_extension(path) == LET parts == split(path, ".") IN parts[Len(parts)]

\* PNGEncoder.save; io_ok: whether the file system lets the file be written.
\* Result: what it did, and whether it returned (TRUE) or raised (FALSE).
PNGEncoder_save(qr, path, fill_color, back_color, box_size, border, io_ok) ==
    LET mk == Ev("make_image", [fill_color |-> fill_color, back_color |-> back_color])
        img0 == make_image(qr, fill_color, back_color)
        img == IF back_color = "transparent" THEN convert(img0, "RGBA") ELSE img0
    IN  IF fill_color \notin KnownColors
        THEN [fx |-> << mk, Ev("raise", "ValueError") >>, ok |-> FALSE]
        ELSE IF ~io_ok
        THEN [fx |-> << mk, Ev("raise", "OSError") >>, ok |-> FALSE]
        ELSE [fx |-> << mk, Ev("write", [path |-> path, format |-> "PNG",
                                         content |-> img]) >>,
              ok |-> TRUE]

\* SVGEncoder.save: a second QRCode with the SVG image factory, fed
\* qr.data_list (a list, which add_data turns into text with str())
SVGEncoder_save(qr, path, fill_color, back_color, box_size, border, io_ok) ==
    LET svg_qr == add_data(QRCode(qr.error_correction, box_size, border),
                           str_of_list(qr.data_list))
        img == svg_make_image(svg_qr, fill_color)
        pre == << Ev("QRCode", [error_correction |-> qr.error_correction,
                                box_size |-> box_size, border |-> border]),
                  Ev("add_data", str_of_list(qr.data_list)),
                  Ev("make_image", [fill_color |-> fill_color, back_color |-> "None"]) >>
    IN  IF ~io_ok
        THEN [fx |-> Append(pre, Ev("raise", "OSError")), ok |-> FALSE]
        ELSE [fx |-> Append(pre, Ev("write", [path |-> path, format |-> "SVG",
                                              content |-> img])),
              ok |-> TRUE]

\* encoder.save(qr=qr, path=path, fill_color=..., back_color=..., ...)
encoder_save(encoder, qr, path, fill_color, back_color, box_size, border, io_ok) ==
    LET call == Ev("encoder.save",
                   [encoder |-> encoder, path |-> path, fill_color |-> fill_color,
                    back_color |-> back_color, box_size |-> box_size,
                    border |-> border])
        r == IF encoder = "SVGEncoder"
             THEN SVGEncoder_save(qr, path, fill_color, back_color, box_size,
                                  border, io_ok)
             ELSE PNGEncoder_save(qr, path, fill_color, back_color, box_size,
                                  border, io_ok)
    IN  [fx |-> << call >> \o r.fx, ok |-> r.ok]


(***************************************************************************)
(* main.py: QRApp and its two commands                                     *)
(***************************************************************************)
\* the part of the application's state a handler may change
Cur ==
    [image |-> current_image, qr |-> current_qr, spec |-> current_spec,
     preview |-> preview, status |-> status_var, input |-> input_var]

\* QRApp.set_preview(img, qr), img and qr None or <<value>>
set_preview(st, img, qr) ==
    LET st1 == [st EXCEPT !.image = img, !.qr = qr,
                          !.spec = IF img # None THEN build_spec ELSE None]
    IN  IF img = None
        THEN [st1 EXCEPT !.preview = [image |-> None, text |-> "No preview"]]
        ELSE [st1 EXCEPT !.preview = [image |-> img, text |-> st.preview.text],
                         !.status = "Preview"]

GeneratedMsg(spec) ==
    << "Generated QR", spec.error_level, spec.box_size, spec.border,
       spec.background.name >>

\* the guard of GenerateQRCommand.execute without the strip()
no_input_unstripped(data) == data = << >>

\* the guard of GenerateQRCommand.execute: not self.spec.data.strip()
no_input(data) == strip(data) = << >>

\* GenerateQRCommand.execute, publishing before it sets the preview
GenerateQRCommand_tail_publish_first(st, spec, img, qr) ==
    [fx |-> Publish(GeneratedMsg(spec))
            \o << Ev("set_preview", [image |-> Some(img), qr |-> Some(qr)]) >>,
     st |-> set_preview(st, Some(img), Some(qr))]

\* GenerateQRCommand.execute, its last two statements:
\* self.app.set_preview(img, qr); self.bus.publish("Generated QR ...")
GenerateQRCommand_tail(st, spec, img, qr) ==
    [fx |-> << Ev("set_preview", [image |-> Some(img), qr |-> Some(qr)]) >>
            \o Publish(GeneratedMsg(spec)),
     st |-> set_preview(st, Some(img), Some(qr))]

\* GenerateQRCommand.execute on the spec it was built with
GenerateQRCommand_execute(st, spec) ==
    IF no_input(spec.data)
    THEN [fx |-> << Ev("showwarning", "No input") >>, st |-> st]
    ELSE
      LET ec == err_map_get(spec.error_level)
          qr == add_data(QRCode(ec, spec.box_size, spec.border), spec.data)
          back == spec.background.back_color
          pre == << Ev("QRCode", [error_correction |-> ec,
                                  box_size |-> spec.box_size,
                                  border |-> spec.border]),
                    Ev("add_data", spec.data),
                    Ev("make_image", [fill_color |-> spec.fill_color,
                                      back_color |-> back]) >>
      IN  IF spec.fill_color \notin KnownColors
          THEN [fx |-> Append(pre, Ev("raise", "ValueError")), st |-> st]
          ELSE LET img == convert(make_image(qr, spec.fill_color, back), "RGBA")
                   tail == GenerateQRCommand_tail(st, spec, img, qr)
               IN  [fx |-> pre \o tail.fx, st |-> tail.st]

\* QRApp.on_generate: spec = self._build_spec(); GenerateQRCommand(...).execute()
QRApp_on_generate_outcome ==
    IF build_spec = None
    THEN [fx |-> << Ev("raise", "TclError") >>, st |-> Cur]
    ELSE GenerateQRCommand_execute(Cur, build_spec[1])

\* the try block of SaveQRCommand.execute run on the widgets' spec
save_spec_from_widgets == build_spec

\* the spec the try block of SaveQRCommand.execute reads: self.app.current_spec
save_spec == current_spec

\* SaveQRCommand.execute, the try block: what it did and whether it raised
SaveQRCommand_try(path, io_ok) ==
    IF save_spec = None
    THEN [fx |-> << Ev("raise", "AttributeError") >>, ok |-> FALSE]
    ELSE
      LET spec == save_spec[1]
          encoder == for_extension(path_extension(path))
          ec == err_map_get(spec.error_level)
          qr == add_data(QRCode(ec, spec.box_size, spec.border), spec.data)
          pre == << Ev("QRCode", [error_correction |-> ec,
                                  box_size |-> spec.box_size,
                                  border |-> spec.border]),
                    Ev("add_data", spec.data) >>
          sv == encoder_save(encoder, qr, path, spec.fill_color,
                             spec.background.back_color, spec.box_size,
                             spec.border, io_ok)
      IN  [fx |-> pre \o sv.fx, ok |-> sv.ok]

\* the except branch of SaveQRCommand.execute, swallowing the exception
SaveQRCommand_except_silent(e) == << Ev("caught", e) >>

\* SaveQRCommand.execute, "except Exception as e": the log line and the dialog
SaveQRCommand_except(e) ==
    << Ev("caught", e) >> \o Publish(<< "ERROR saving", e >>)
    \o << Ev("showerror", "Save failed") >>

\* SaveQRCommand.execute; path: what the file dialog returned
SaveQRCommand_execute(st, path, io_ok) ==
    IF st.qr = None
    THEN [fx |-> << Ev("showinfo", "Nothing to save") >>, st |-> st]
    ELSE IF path = << >>
    THEN [fx |-> << Ev("asksaveasfilename", path) >>, st |-> st]
    ELSE
      LET t == SaveQRCommand_try(path, io_ok)
      IN  IF t.ok
          THEN [fx |-> << Ev("asksaveasfilename", path) >> \o t.fx
                       \o Publish(<< "Saved QR to", path >>)
                       \o << Ev("showinfo", "Saved") >>,
                st |-> st]
          ELSE \* the raise, last in t.fx, is caught
               [fx |-> << Ev("asksaveasfilename", path) >>
                       \o SubSeq(t.fx, 1, Len(t.fx) - 1)
                       \o SaveQRCommand_except(t.fx[Len(t.fx)].arg),
                st |-> st]

\* QRApp.on_clear
QRApp_on_clear_outcome(st) ==
    [fx |-> << Ev("set_preview", [image |-> None, qr |-> None]) >>
            \o Publish(<< "Cleared." >>),
     st |-> [set_preview([st EXCEPT !.input = << >>], None, None)
                EXCEPT !.status = "Cleared"]]


(***************************************************************************)
(* tk_app.py: App. Its commands, service and QRSpec live in modules that   *)
(* are not part of the sources at hand (qrstudio.commands,                 *)
(* qrstudio.services.qr_service, qrstudio.domain.spec): they are modelled  *)
(* from the specification's description of the two command objects.        *)
(***************************************************************************)
\* App._spec: None when int() of a numeric field raises ValueError
tk_spec ==
    LET b == int(box_var)
        bd == int(border_var)
    IN  IF b = None \/ bd = None THEN None
        ELSE Some([data |-> input_var,
                   ec |-> ec_var,
                   box_size |-> b[1],
                   border |-> bd[1],
                   fill_color |-> IF fill_var = "" THEN "black" ELSE fill_var,
                   background |-> bg_var])

\* the 1x1 transparent image on_clear puts in the preview label
blank_image ==
    [encodes |-> << >>, error_correction |-> "none", box_size |-> 1, border |-> 0,
     fill_color |-> "none", back_color |-> "transparent", mode |-> "RGBA"]

\* _Preview.show(pil_image, qr_obj)
Preview_show(st, img, qr) ==
    [st EXCEPT !.qr = Some(qr), !.image = Some(img),
               !.preview = [image |-> Some(img), text |-> st.preview.text],
               !.status = "Preview"]

\* qrstudio's "text must be non-empty before encoding"
QRService_no_input(data) == strip(data) = << >>

\* qrstudio.commands.GenerateQRCommand.execute: the service makes the symbol
\* and the image, the preview shows them, the bus publishes the log line.
\* raised: None, or <<the exception that left execute>>
tk_GenerateQRCommand_execute(st, spec) ==
    IF QRService_no_input(spec.data)
    THEN [fx |-> << Ev("raise", "ValueError") >>, st |-> st,
          raised |-> Some("ValueError")]
    ELSE
      LET ec == err_map_get(spec.ec)
          qr == add_data(QRCode(ec, spec.box_size, spec.border), spec.data)
          pre == << Ev("QRCode", [error_correction |-> ec,
                                  box_size |-> spec.box_size,
                                  border |-> spec.border]),
                    Ev("add_data", spec.data),
                    Ev("make_image", [fill_color |-> spec.fill_color,
                                      back_color |-> spec.background]) >>
      IN  IF spec.fill_color \notin KnownColors
          THEN [fx |-> Append(pre, Ev("raise", "ValueError")), st |-> st,
                raised |-> Some("ValueError")]
          ELSE LET img == convert(make_image(qr, spec.fill_color, spec.background),
                                  "RGBA")
               IN  [fx |-> pre \o << Ev("Preview.show", [image |-> img, qr |-> qr]) >>
                           \o Publish(<< "Generated QR", spec.ec, spec.box_size,
                                         spec.border, spec.background >>),
                    st |-> Preview_show(st, img, qr),
                    raised |-> None]

\* App.on_generate
App_on_generate_outcome ==
    IF tk_spec = None
    THEN \* self._spec() is evaluated before the try
         [fx |-> << Ev("raise", "ValueError") >>, st |-> Cur]
    ELSE
      LET st0 == [Cur EXCEPT !.preview.text = ""]
          r == tk_GenerateQRCommand_execute(st0, tk_spec[1])
      IN  IF r.raised = None THEN [fx |-> r.fx, st |-> r.st]
          ELSE \* except ValueError
               [fx |-> SubSeq(r.fx, 1, Len(r.fx) - 1)
                       \o << Ev("caught", "ValueError"),
                             Ev("showwarning", "No input") >>,
                st |-> r.st]

\* qrstudio.commands.SaveQRCommand.execute(spec provider, ask_path, ...):
\* ask for the path, return when there is none, build the spec, encode, write,
\* publish. raised: None, or <<the exception that left execute>>
tk_SaveQRCommand_execute(path, io_ok) ==
    LET ask == << Ev("asksaveasfilename", path) >>
    IN  IF path = << >> THEN [fx |-> ask, raised |-> None]
        ELSE IF tk_spec = None
        THEN [fx |-> ask, raised |-> Some("ValueError")]
        ELSE IF QRService_no_input(tk_spec[1].data)
        THEN [fx |-> ask, raised |-> Some("ValueError")]
        ELSE
          LET spec == tk_spec[1]
              encoder == for_extension(path_extension(path))
              ec == err_map_get(spec.ec)
              qr == add_data(QRCode(ec, spec.box_size, spec.border), spec.data)
              pre == << Ev("QRCode", [error_correction |-> ec,
                                      box_size |-> spec.box_size,
                                      border |-> spec.border]),
                        Ev("add_data", spec.data) >>
              sv == encoder_save(encoder, qr, path, spec.fill_color,
                                 spec.background, spec.box_size, spec.border, io_ok)
          IN  IF sv.ok
              THEN [fx |-> ask \o pre \o sv.fx
                           \o Publish(<< "Saved QR to", path >>),
                    raised |-> None]
              ELSE [fx |-> ask \o pre \o SubSeq(sv.fx, 1, Len(sv.fx) - 1),
                    raised |-> Some(sv.fx[Len(sv.fx)].arg)]

\* App.on_save
App_on_save_outcome(st, path, io_ok) ==
    IF st.image = None
    THEN [fx |-> << Ev("showinfo", "Nothing to save") >>, st |-> st]
    ELSE
      LET r == tk_SaveQRCommand_execute(path, io_ok)
      IN  IF r.raised = None
          THEN [fx |-> Append(r.fx, Ev("showinfo", "Saved")), st |-> st]
          ELSE \* except Exception as e
               [fx |-> r.fx \o << Ev("caught", r.raised[1]) >>
                       \o Publish(<< "ERROR saving", r.raised[1] >>)
                       \o << Ev("showerror", "Save failed") >>,
                st |-> st]

\* App.on_clear
App_on_clear_outcome(st) ==
    [fx |-> Publish(<< "Cleared." >>),
     st |-> [st EXCEPT !.input = << >>,
                       !.preview = [image |-> Some(blank_image),
                                    text |-> "No preview"],
                       !.image = None, !.qr = None,
                       !.status = "Cleared"]]

(***************************************************************************)
(* The application as a state machine                                      *)
(***************************************************************************)
TextValues == { << >>, << " " >>, << "a" >>, << " ", "b" >> }
EcValues == {"M", "H"}
BoxValues == { << "1", "0" >>, << "3" >>, << >> }
BorderValues == { << "4" >>, << "x" >> }
FillValues == {"black", "red", "", "zz"}
BgValues == {"white", "transparent"}
\* what the save dialog returns: "" when cancelled, else a full path name
PathValues ==
    { << >>,
      << "/", "q", ".", "p", "n", "g" >>,
      << "/", "q", ".", "s", "v", "g" >> }

\* the widgets' defaults and the fields set in __init__
Defaults ==
    /\ input_var = << >>
    /\ ec_var = "M"
    /\ box_var = << "1", "0" >>
    /\ border_var = << "4" >>
    /\ fill_var = "black"
    /\ bg_var = "white"
    /\ current_image = None
    /\ current_qr = None
    /\ current_spec = None

\* the state after QRApp(root) or App(root)
Init ==
    /\ frontend \in {"main", "tk"}
    /\ Defaults
    /\ preview = [image |-> None,
                  text |-> IF frontend = "main" THEN "" ELSE "No preview"]
    /\ status_var = "Ready"
    /\ last_op = "init"
    /\ subs = EventBus_subscribe(EventBus_new, "console.write")
    /\ effects = IF frontend = "main" THEN Publish(<< "Ready." >>)
                 ELSE << Ev("console.write", << "Ready." >>) >>
    /\ calls = << >>
    /\ hist = << >>
    /\ fx_in = [op |-> "none", s |-> << >>]
    /\ fx_out = [encoder |-> "none", format |-> "none"]

\* a handler's outcome becomes the next state
Apply(op, out) ==
    /\ last_op' = op
    /\ effects' = out.fx
    /\ current_image' = out.st.image
    /\ current_qr' = out.st.qr
    /\ current_spec' = out.st.spec
    /\ preview' = out.st.preview
    /\ status_var' = out.st.status
    /\ input_var' = out.st.input
    /\ UNCHANGED << frontend, ec_var, box_var, border_var, fill_var, bg_var,
                    subs, calls, hist, fx_in, fx_out >>

QRApp_on_generate ==
    /\ frontend = "main"
    /\ Apply("generate", QRApp_on_generate_outcome)

QRApp_on_save ==
    /\ frontend = "main"
    /\ \E path \in PathValues, io_ok \in BOOLEAN :
           Apply("save", SaveQRCommand_execute(Cur, path, io_ok))

QRApp_on_clear ==
    /\ frontend = "main"
    /\ Apply("clear", QRApp_on_clear_outcome(Cur))

App_on_generate ==
    /\ frontend = "tk"
    /\ Apply("generate", App_on_generate_outcome)

App_on_save ==
    /\ frontend = "tk"
    /\ \E path \in PathValues, io_ok \in BOOLEAN :
           Apply("save", App_on_save_outcome(Cur, path, io_ok))

App_on_clear ==
    /\ frontend = "tk"
    /\ Apply("clear", App_on_clear_outcome(Cur))

\* the user edits a widget
Edited ==
    /\ last_op' = "edit"
    /\ effects' = << >>
    /\ UNCHANGED << frontend, current_image, current_qr, current_spec, preview,
                    status_var, subs, calls, hist, fx_in, fx_out >>

EditText ==
    /\ \E v \in TextValues \ {input_var} : input_var' = v
    /\ Edited
    /\ UNCHANGED << ec_var, box_var, border_var, fill_var, bg_var >>

EditEc ==
    /\ \E v \in EcValues \ {ec_var} : ec_var' = v
    /\ Edited
    /\ UNCHANGED << input_var, box_var, border_var, fill_var, bg_var >>

EditBox ==
    /\ \E v \in BoxValues \ {box_var} : box_var' = v
    /\ Edited
    /\ UNCHANGED << input_var, ec_var, border_var, fill_var, bg_var >>

EditBorder ==
    /\ \E v \in BorderValues \ {border_var} : border_var' = v
    /\ Edited
    /\ UNCHANGED << input_var, ec_var, box_var, fill_var, bg_var >>

EditFill ==
    /\ \E v \in FillValues \ {fill_var} : fill_var' = v
    /\ Edited
    /\ UNCHANGED << input_var, ec_var, box_var, border_var, bg_var >>

EditBg ==
    /\ \E v \in BgValues \ {bg_var} : bg_var' = v
    /\ Edited
    /\ UNCHANGED << input_var, ec_var, box_var, border_var, fill_var >>

Next ==
    \/ QRApp_on_generate
    \/ QRApp_on_save
    \/ QRApp_on_clear
    \/ App_on_generate
    \/ App_on_save
    \/ App_on_clear
    \/ EditText
    \/ EditEc
    \/ EditBox
    \/ EditBorder
    \/ EditFill
    \/ EditBg

Spec == Init /\ [][Next]_vars


(***************************************************************************)
(* The event bus on its own: any sequence of subscribe and publish on a    *)
(* new EventBus, and QRApp.__init__'s use of it.                           *)
(***************************************************************************)
MaxBusOps == 4
Callbacks == {"f", "g"}
Messages == {"m1", "m2"}

IdleApp ==
    /\ frontend = "main"
    /\ Defaults
    /\ preview = [image |-> None, text |-> ""]
    /\ status_var = "Ready"
    /\ last_op = "init"
    /\ effects = << >>

BusInit ==
    /\ IdleApp
    /\ subs = EventBus_new
    /\ calls = << >>
    /\ hist = << >>
    /\ fx_in = [op |-> "none", s |-> << >>]
    /\ fx_out = [encoder |-> "none", format |-> "none"]

\* bus.subscribe(fn)
BusSubscribe ==
    /\ Len(hist) < MaxBusOps
    /\ \E fn \in Callbacks :
           /\ subs' = EventBus_subscribe(subs, fn)
           /\ hist' = Append(hist, << "subscribe", fn >>)
    /\ UNCHANGED << calls, appVars, fxVars >>

\* bus.publish(m)
BusPublish ==
    /\ Len(hist) < MaxBusOps
    /\ \E m \in Messages :
           /\ calls' = calls \o EventBus_publish(subs, m)
           /\ hist' = Append(hist, << "publish", m >>)
    /\ UNCHANGED << subs, appVars, fxVars >>

\* QRApp.__init__ on its new bus: self.bus.subscribe(self.console.write);
\* self.bus.publish("Ready. ...")
QRApp_init_bus ==
    /\ hist = << >>
    /\ LET s1 == EventBus_subscribe(subs, "console.write")
       IN  /\ subs' = s1
           /\ calls' = calls \o EventBus_publish(s1, "Ready.")
           /\ hist' = << << "subscribe", "console.write" >>,
                         << "publish", "Ready." >> >>
    /\ UNCHANGED << appVars, fxVars >>

BusNext == BusSubscribe \/ BusPublish \/ QRApp_init_bus

SpecBus == BusInit /\ [][BusNext]_vars

(***************************************************************************)
(* The encoder factory on its own: for_extension on any string, and the    *)
(* encoder Save resolves for any path the file dialog returns.             *)
(***************************************************************************)
MaxExtLen == 4
MaxPathTail == 5
ExtChars == {".", "s", "v", "g", "S", "V", "G", "p", "n"}
PathChars == {"/", ".", "s", "v", "g", "S"}

Strings(chars, n) == UNION {[1..k -> chars] : k \in 0..n}

\* the string to hand to the factory, or the path the file dialog returned (a
\* full path name: "/" and the rest); nothing computed yet
FactoryInit ==
    /\ IdleApp
    /\ subs = EventBus_new
    /\ calls = << >>
    /\ hist = << >>
    /\ \/ \E ext \in Strings(ExtChars, MaxExtLen) :
              fx_in = [op |-> "for_extension", s |-> ext]
       \/ \E tail \in Strings(PathChars, MaxPathTail) :
              fx_in = [op |-> "save", s |-> << "/" >> \o tail]
    /\ fx_out = [encoder |-> "none", format |-> "none"]

\* ImageEncoderFactory.for_extension(ext)
FactoryCall ==
    /\ fx_in.op = "for_extension"
    /\ fx_out.encoder = "none"
    /\ fx_out' = [encoder |-> for_extension(fx_in.s), format |-> "none"]
    /\ UNCHANGED << fx_in, appVars, busVars >>

\* the written file's format, of what an encoder's save did
WrittenFormat(fx) ==
    LET w == {i \in 1..Len(fx) : fx[i].kind = "write"}
    IN  IF w = {} THEN "none" ELSE fx[CHOOSE i \in w : TRUE].arg.format

\* SaveQRCommand.execute from the path on: the encoder resolved and the file
\* it writes
SaveResolve ==
    /\ fx_in.op = "save"
    /\ fx_out.encoder = "none"
    /\ LET path == fx_in.s
           encoder == for_extension(path_extension(path))
           qr == add_data(QRCode("ERROR_CORRECT_M", 10, 4), << "a" >>)
           sv == encoder_save(encoder, qr, path, "black", "white", 10, 4, TRUE)
       IN  fx_out' = [encoder |-> encoder, format |-> WrittenFormat(sv.fx)]
    /\ UNCHANGED << fx_in, appVars, busVars >>

FactoryNext == FactoryCall \/ SaveResolve

SpecFactory == FactoryInit /\ [][FactoryNext]_vars

(***************************************************************************)
(* Reading effects                                                         *)
(***************************************************************************)
AtIn(fx, k) == {i \in 1..Len(fx) : fx[i].kind = k}
HasIn(fx, k) == AtIn(fx, k) # {}
FirstIn(fx, k) == fx[CHOOSE i \in AtIn(fx, k) : \A j \in AtIn(fx, k) : i <= j]
DialogIn(fx, k, title) == \E i \in AtIn(fx, k) : fx[i].arg = title
\* the console lines whose text starts with tag
LogLinesIn(fx, tag) == {i \in AtIn(fx, "console.write") : fx[i].arg[1] = tag}
\* the file dialog was answered with a path
PathChosenIn(fx) == \E i \in AtIn(fx, "asksaveasfilename") : fx[i].arg # << >>
\* the file dialog was cancelled
CancelledIn(fx) == \E i \in AtIn(fx, "asksaveasfilename") : fx[i].arg = << >>
\* empty or whitespace only
AllBlank(t) == \A i \in 1..Len(t) : t[i] \in {" ", "\t", "\n"}

\* what the widgets hold, as values
FieldNumber(s) ==
    CASE s = << "1", "0" >> -> 10
      [] s = << "3" >> -> 3
      [] s = << "4" >> -> 4
      [] OTHER -> -1
EcConst(l) ==
    CASE l = "L" -> "ERROR_CORRECT_L"
      [] l = "M" -> "ERROR_CORRECT_M"
      [] l = "Q" -> "ERROR_CORRECT_Q"
      [] l = "H" -> "ERROR_CORRECT_H"
WidgetFill == IF fill_var = "" THEN "black" ELSE fill_var

\* the parameters the handler that ran last gave the qrcode library: those of
\* its QRCode(...), its add_data(...), and the colours of its make_image(...)
\* (Generate) or of its encoder.save(...) (Save)
UsedColours ==
    IF last_op = "generate" THEN FirstIn(effects, "make_image").arg
    ELSE FirstIn(effects, "encoder.save").arg
UsedWidgets ==
    /\ FirstIn(effects, "QRCode").arg.error_correction = EcConst(ec_var)
    /\ FirstIn(effects, "QRCode").arg.box_size = FieldNumber(box_var)
    /\ FirstIn(effects, "QRCode").arg.border = FieldNumber(border_var)
    /\ FirstIn(effects, "add_data").arg = input_var
    /\ UsedColours.fill_color = WidgetFill
    /\ UsedColours.back_color = bg_var
UsedSpec(sp) ==
    /\ FirstIn(effects, "QRCode").arg.error_correction = EcConst(sp.error_level)
    /\ FirstIn(effects, "QRCode").arg.box_size = sp.box_size
    /\ FirstIn(effects, "QRCode").arg.border = sp.border
    /\ FirstIn(effects, "add_data").arg = sp.data
    /\ UsedColours.fill_color = sp.fill_color
    /\ UsedColours.back_color = sp.background.back_color

(***************************************************************************)
(* C1: a Generate whose input text is empty or whitespace-only shows the   *)
(* "No input" warning, never calls the QR encoder and publishes no         *)
(* "Generated" log line, in both front-ends.                               *)
(***************************************************************************)
C1_BlankGenerateWarns ==
    (last_op = "generate" /\ AllBlank(input_var))
        => /\ DialogIn(effects, "showwarning", "No input")
           /\ ~HasIn(effects, "add_data")
           /\ LogLinesIn(effects, "Generated QR") = {}

SaveFailedIn(fx) ==
    PathChosenIn(fx) /\ (HasIn(fx, "caught") \/ HasIn(fx, "raise"))

C3_SaveFailureIsCaught ==
    [][ (last_op' = "save" /\ SaveFailedIn(effects'))
          => /\ ~HasIn(effects', "raise")
             /\ Cardinality(LogLinesIn(effects', "ERROR saving")) = 1
             /\ DialogIn(effects', "showerror", "Save failed")
             /\ LogLinesIn(effects', "Saved QR to") = {}
             /\ ~DialogIn(effects', "showinfo", "Saved")
             /\ current_image' = current_image
             /\ current_qr' = current_qr
             /\ current_spec' = current_spec ]_vars

\* a Save of main.py whose file could not be written
C3_SaveFailed ==
    /\ frontend = "main"
    /\ last_op = "save"
    /\ SaveFailedIn(effects)
    /\ HasIn(effects, "encoder.save")

DisplayedAt ==
    {i \in AtIn(effects, "set_preview") : effects[i].arg.image # None}

C5_DisplayOrSaveThenPublish ==
    frontend = "main" =>
    /\ \A i \in LogLinesIn(effects, "Generated QR") :
           /\ \E j \in DisplayedAt : j < i
           /\ \E j \in AtIn(effects, "make_image") : j < i
           /\ current_image # None
           /\ preview.image = current_image
    /\ \A i \in LogLinesIn(effects, "Saved QR to") :
           \E j \in AtIn(effects, "write") : j < i
    /\ (last_op = "generate" /\ DisplayedAt # {})
           => /\ Cardinality(AtIn(effects, "console.write")) = 1
              /\ Cardinality(LogLinesIn(effects, "Generated QR")) = 1
    /\ (last_op = "save" /\ HasIn(effects, "write"))
           => /\ Cardinality(AtIn(effects, "console.write")) = 1
              /\ Cardinality(LogLinesIn(effects, "Saved QR to")) = 1
    /\ (DisplayedAt = {} /\ ~HasIn(effects, "write"))
           => /\ LogLinesIn(effects, "Generated QR") = {}
              /\ LogLinesIn(effects, "Saved QR to") = {}

\* a Generate of main.py that displayed a preview and logged it
C5_GeneratedAndLogged ==
    /\ frontend = "main"
    /\ last_op = "generate"
    /\ DisplayedAt # {}
    /\ LogLinesIn(effects, "Generated QR") # {}

(***************************************************************************)
(* C10: Save writes a file only when a QR is held and the user chose a     *)
(* non-empty path. With no QR held it shows "Nothing to save" and neither  *)
(* opens the file dialog nor writes; with the dialog cancelled it writes   *)
(* nothing, publishes no log line and shows no "Saved" dialog.             *)
(***************************************************************************)
C10_SaveOnlyWithQrAndPath ==
    /\ HasIn(effects, "write")
           => /\ last_op = "save"
              /\ current_qr # None
              /\ PathChosenIn(effects)
    /\ (last_op = "save" /\ current_qr = None)
           => /\ DialogIn(effects, "showinfo", "Nothing to save")
              /\ ~HasIn(effects, "asksaveasfilename")
              /\ ~HasIn(effects, "write")
    /\ (last_op = "save" /\ CancelledIn(effects))
           => /\ ~HasIn(effects, "write")
              /\ ~HasIn(effects, "console.write")
              /\ ~DialogIn(effects, "showinfo", "Saved")


(***************************************************************************)
(* C8: for_extension returns the SVG encoder exactly when the extension,   *)
(* lower-cased and with its leading dots removed, is "svg", and the PNG    *)
(* encoder for every other string; in Save the extension is the text after *)
(* the last "." of the chosen path, so a path with no "." or with an       *)
(* unknown suffix is written as PNG.                                       *)
(***************************************************************************)
IsSvgWord(w) ==
    /\ Len(w) = 3
    /\ w[1] \in {"s", "S"}
    /\ w[2] \in {"v", "V"}
    /\ w[3] \in {"g", "G"}

DotsThenSvg(e) ==
    \E k \in 0..Len(e) :
        /\ \A i \in 1..k : e[i] = "."
        /\ IsSvgWord(SubSeq(e, k + 1, Len(e)))

DotsAt(p) == {i \in 1..Len(p) : p[i] = "."}

AfterLastDot(p) ==
    LET last == CHOOSE i \in DotsAt(p) : \A j \in DotsAt(p) : j <= i
    IN  SubSeq(p, last + 1, Len(p))

C8_FactoryTwoCases ==
    /\ (fx_in.op = "for_extension" /\ fx_out.encoder # "none")
           => /\ fx_out.encoder \in {"PNGEncoder", "SVGEncoder"}
              /\ fx_out.encoder = "SVGEncoder" <=> DotsThenSvg(fx_in.s)
    /\ (fx_in.op = "save" /\ fx_out.encoder # "none")
           => /\ fx_out.encoder \in {"PNGEncoder", "SVGEncoder"}
              /\ fx_out.format = (IF fx_out.encoder = "SVGEncoder" THEN "SVG"
                                  ELSE "PNG")
              /\ DotsAt(fx_in.s) = {} => fx_out.format = "PNG"
              /\ DotsAt(fx_in.s) # {}
                     => (fx_out.format = "SVG" <=> IsSvgWord(AfterLastDot(fx_in.s)))

\* the factory asked for ".Svg"-like input: dots, then svg in mixed case
C8_DottedMixedCaseSvg ==
    /\ fx_in.op = "for_extension"
    /\ Len(fx_in.s) = 4
    /\ fx_in.s[1] = "."
    /\ fx_in.s[2] = "S"
    /\ fx_out.encoder = "SVGEncoder"

(***************************************************************************)
(* C9: publish(m) calls every callback subscribed so far, once per         *)
(* subscription and in subscription order, with m; a callback subscribed   *)
(* after a publish does not get that earlier message; and QRApp, which     *)
(* subscribes the console logger before its first publish, gets every      *)
(* published message into the console.                                     *)
(***************************************************************************)
\* the callbacks subscribed by a history, in subscription order
RECURSIVE SubscribedBy(_)
SubscribedBy(h) ==
    IF h = << >> THEN << >>
    ELSE LET e == h[Len(h)]
             before == SubscribedBy(SubSeq(h, 1, Len(h) - 1))
         IN  IF e[1] = "subscribe" THEN Append(before, e[2]) ELSE before

\* the callback calls a history asks for
RECURSIVE CallsOwed(_)
CallsOwed(h) ==
    IF h = << >> THEN << >>
    ELSE LET e == h[Len(h)]
             pre == SubSeq(h, 1, Len(h) - 1)
             to == SubscribedBy(pre)
         IN  CallsOwed(pre)
             \o (IF e[1] = "publish" THEN [i \in 1..Len(to) |-> << to[i], e[2] >>]
                 ELSE << >>)

IsConsoleCall(c) == c[1] = "console.write"
IsPublish(e) == e[1] = "publish"

C9_PublishReachesSubscribers ==
    /\ calls = CallsOwed(hist)
    /\ (hist # << >> /\ hist[1] = << "subscribe", "console.write" >>)
           => LET got == SelectSeq(calls, IsConsoleCall)
                  sent == SelectSeq(hist, IsPublish)
              IN  /\ Len(got) = Len(sent)
                  /\ \A i \in 1..Len(got) : got[i][2] = sent[i][2]

\* two callbacks were called by one publish, and a callback was subscribed
\* after an earlier publish
C9_TwoSubscribersAndLateOne ==
    /\ Len(subs) >= 2
    /\ \E i, j \in 1..Len(hist) :
           i < j /\ hist[i][1] = "publish" /\ hist[j][1] = "subscribe"
    /\ \E i \in 1..Len(calls) : \E j \in 1..Len(calls) :
           i < j /\ calls[i][1] # calls[j][1] /\ calls[i][2] = calls[j][2]

(***************************************************************************)
(* C11 (main.py): Save rebuilds the QR from current_spec, the parameters   *)
(* captured at the most recent successful Generate: whatever was edited in *)
(* the widgets since, the saved file encodes the same text, error          *)
(* correction level, box size, border and fill colour as the preview that  *)
(* is displayed.                                                           *)
(***************************************************************************)
C11_SavedFileMatchesPreview ==
    (frontend = "main" /\ last_op = "save" /\ HasIn(effects, "write"))
        => /\ preview.image # None
           /\ current_spec # None
           /\ LET file == FirstIn(effects, "write").arg.content
                  shown == preview.image[1]
              IN  /\ file.encodes = current_spec[1].data
                  /\ file.encodes = shown.encodes
                  /\ file.error_correction = shown.error_correction
                  /\ file.box_size = shown.box_size
                  /\ file.border = shown.border
                  /\ file.fill_color = shown.fill_color

(***************************************************************************)
(* C12: a Generate that is rejected for empty input changes nothing: the   *)
(* current image, the current QR object, the current spec and the preview  *)
(* display (its image and its "No preview" text) are after the action what *)
(* they were before it, in both front-ends.                                *)
(***************************************************************************)
RejectedForEmptyInput ==
    /\ last_op' = "generate"
    /\ AllBlank(input_var)
    /\ DialogIn(effects', "showwarning", "No input")

C12_RejectedGenerateChangesNothing ==
    [][RejectedForEmptyInput
         => /\ current_image' = current_image
            /\ current_qr' = current_qr
            /\ current_spec' = current_spec
            /\ preview' = preview]_vars

(***************************************************************************)
(* C13 (tk_app.py): App.on_generate shows the "No input" warning if and    *)
(* only if the input text is empty (whitespace-only counts as empty here): *)
(* a Generate that fails for another reason (box size or border that is    *)
(* not a number, a colour the image library rejects) shows no "No input"   *)
(* warning, and no failure of Generate leaves on_generate without a        *)
(* message to the user.                                                    *)
(***************************************************************************)
GenerateFailed == ~HasIn(effects, "Preview.show")
UserMessageShown ==
    \E k \in {"showwarning", "showerror", "showinfo"} : HasIn(effects, k)

C13_NoInputIffEmpty ==
    (frontend = "tk" /\ last_op = "generate")
        => /\ DialogIn(effects, "showwarning", "No input") <=> AllBlank(input_var)
           /\ ~HasIn(effects, "raise")
           /\ GenerateFailed => UserMessageShown

====
